---- MODULE Spec2Model ----
(***************************************************************************)
(* The webhook ingress gateway of src/api: three Flask modules             *)
(* (webhook.py, webhook_tgms.py, webhook_swap.py) that validate an inbound *)
(* Telegram update, classify it and insert one row into the jobs table.    *)
(*                                                                         *)
(* Each HTTP request is a process with a program counter.  The durable     *)
(* store is the set of committed rows (jobs) plus, per request, the rows   *)
(* written inside its still open transaction (tx).  The store can become   *)
(* unreachable and reachable again at any time, and any store operation    *)
(* can fail.                                                               *)
(*                                                                         *)
(* webhook.py, lines 215 and 259 and 422: the inner `try:` has no handler; *)
(* it is modelled as the plain block it encloses.                          *)
(***************************************************************************)
EXTENDS Integers, Sequences, FiniteSets, TLC

\* ------------------------------------------------------------------ bounds
MaxReq == 1
MaxMissing == 1
MaxLag == 1

Reqs == 1..MaxReq

\* ----------------------------------------------------------- configuration
Settings == {"DATABASE_URL", "BOT_TOKEN", "TGMS_BOT_TOKEN", "SWAP_BOT_TOKEN", "ADMIN_API_KEY"}

Modules == {"webhook", "webhook_tgms", "webhook_swap"}

\* Python's None and the empty string: both falsy, and different values.
None == "None"
Empty == ""

VARIABLES
  configured,  \* the settings present (and non-empty) in the process environment
  storeUp,     \* whether the database accepts connections right now
  engine,      \* per module: whether the global `engine` is set
  pc,          \* per request: where it is in its handler
  method,      \* per request: "GET" or "POST"
  entry,       \* per request: the route (or handler function) it entered by
  header,      \* per request: the x-api-key header it carried, None when absent
  body,        \* per request: the request body
  decision,    \* per request: job_type, bot_token, chat_id once resolved
  calls,       \* per request: the outbound calls / the detached task it started
  conn,        \* per request: whether it holds a store connection
  tx,          \* per request: rows written in its open transaction
  failedAt,    \* per request: the step that failed, or "none"
  resp,        \* per request: the HTTP status returned, 0 while none
  report,      \* per request: the failed checks a readiness document lists
  jobs,        \* the committed rows of the jobs table
  typing       \* per request: the state of its detached typing thread

vars == <<configured, storeUp, engine, pc, method, entry, header, body,
          decision, calls, conn, tx, failedAt, resp, report, jobs, typing>>

\* os.environ.get(name): the value, or None when unset.
SecretOf(name) ==
  CASE name = "BOT_TOKEN" -> "secret-bot"
    [] name = "TGMS_BOT_TOKEN" -> "secret-tgms"
    [] name = "SWAP_BOT_TOKEN" -> "secret-swap"
    [] name = "ADMIN_API_KEY" -> "secret-admin"
    [] OTHER -> "postgresql://user:pw@host/db"

Getenv(name) == IF name \in configured THEN SecretOf(name) ELSE None

\* os.environ.get('SWAP_BOT_TOKEN', '').strip(): the empty string when unset.
SWAP_BOT_TOKEN == IF "SWAP_BOT_TOKEN" \in configured THEN SecretOf("SWAP_BOT_TOKEN") ELSE Empty

\* Python truthiness of a credential value.
Falsy(v) == v = None \/ v = Empty

\* init_db / create_safe_engine: the global is assigned as soon as create_engine
\* returns, before the SELECT 1 probe; a failed probe does not reset it.  So the
\* handle exists exactly when DATABASE_URL is configured, whatever the store does.
\* (Should create_engine of webhook.py reject pool_timeout together with NullPool,
\* that module's engine stays unset; its readiness check is false either way.)
init_db(m) == "DATABASE_URL" \in configured

\* ------------------------------------------------------------------ bodies
MemberStatus == {"administrator", "creator", "member", "nostatus"}

\* A JSON object body: which top-level keys it has.  mcm is "absent" or the
\* value of my_chat_member.new_chat_member.status ("nostatus": no such field).
\* chat: whether the markers carry a nested chat.id.
Obj(uid, mcm, cjr, cbq, msg, chat) ==
  [kind |-> "object", uid |-> uid, mcm |-> mcm, cjr |-> cjr, cbq |-> cbq,
   msg |-> msg, chat |-> chat]

\* Bodies that are no JSON object with keys: unparsable text, an empty object
\* (or null), a non-empty JSON array.
Other(k) ==
  [kind |-> k, uid |-> FALSE, mcm |-> "absent", cjr |-> FALSE, cbq |-> FALSE,
   msg |-> FALSE, chat |-> FALSE]

ObjectBodies ==
  {Obj(TRUE, "absent", FALSE, FALSE, FALSE, FALSE),
   Obj(TRUE, "absent", FALSE, FALSE, TRUE, TRUE),
   Obj(TRUE, "absent", FALSE, FALSE, TRUE, FALSE),
   Obj(TRUE, "absent", FALSE, TRUE, FALSE, TRUE),
   Obj(TRUE, "absent", TRUE, FALSE, FALSE, TRUE),
   Obj(TRUE, "absent", TRUE, TRUE, FALSE, TRUE),
   Obj(TRUE, "administrator", TRUE, FALSE, FALSE, TRUE),
   Obj(TRUE, "member", TRUE, FALSE, FALSE, TRUE),
   Obj(TRUE, "administrator", FALSE, FALSE, FALSE, TRUE),
   Obj(TRUE, "creator", FALSE, FALSE, TRUE, TRUE),
   Obj(TRUE, "member", FALSE, FALSE, FALSE, TRUE),
   Obj(TRUE, "nostatus", FALSE, FALSE, FALSE, TRUE),
   Obj(FALSE, "absent", FALSE, FALSE, TRUE, TRUE)}

Bodies == ObjectBodies \cup {Other("malformed"), Other("empty"), Other("array")}

\* `not update_data`
Truthy(b) == b.kind \in {"object", "array"}

\* `'update_id' in update_data`
HasUpdateId(b) == b.kind = "object" /\ b.uid

\* json.dumps(update_data)
JsonDumps(b) == <<"json", b>>

\* the nested chat.id of a marker, None when absent
ChatOf(b, marker) == IF b.chat THEN marker ELSE None

NoDecision == [job_type |-> None, bot_token |-> None, chat_id |-> None]

\* ------------------------------------------------------------ classification
\* webhook_tgms, "Determine job type": first match wins.
ClassifyTgmsJob(b) ==
  IF b.mcm # "absent"
  THEN (IF b.mcm \in {"administrator", "creator"}
        THEN "tgms_register_group" ELSE "tgms_process_update")
  ELSE IF b.cjr THEN "tgms_process_join_request"
  ELSE "tgms_process_update"

\* A classifier that falls back to a default chat when no marker matched.
ClassifyTgmsChatDefault(b) ==
  IF b.mcm # "absent" THEN ChatOf(b, "my_chat_member")
  ELSE IF b.cjr THEN ChatOf(b, "chat_join_request")
  ELSE IF b.msg THEN ChatOf(b, "message")
  ELSE "default-chat"

ClassifyTgmsChat(b) ==
  IF b.mcm # "absent" THEN ChatOf(b, "my_chat_member")
  ELSE IF b.cjr THEN ChatOf(b, "chat_join_request")
  ELSE IF b.msg THEN ChatOf(b, "message")
  ELSE None

\* _handle_tgms_update: the same job types; no chat context is derived.
ClassifyTgmsUpdateJob(b) ==
  IF b.mcm # "absent"
  THEN (IF b.mcm \in {"administrator", "creator"}
        THEN "tgms_register_group" ELSE "tgms_process_update")
  ELSE IF b.cjr THEN "tgms_process_join_request"
  ELSE "tgms_process_update"

\* _handle_main_update: only chat_join_request is looked at.
ClassifyMainJob(b) ==
  IF b.cjr THEN "tgms_process_join_request" ELSE "process_telegram_update"

ClassifyMainToken(b) ==
  IF b.cjr THEN Getenv("TGMS_BOT_TOKEN") ELSE Getenv("BOT_TOKEN")

\* webhook_swap: one job type, the module-level credential.
ClassifySwapJob(b) == "process_telegram_update"

\* ---------------------------------------------------------------- readiness
\* The engine of webhook.py is created with poolclass=NullPool: the pool keeps
\* no connection, so the number of checked-in connections is never above 0.
PoolCheckedIn == 0

\* get_health_status: the per-check booleans.
HealthChecks ==
  [database |-> engine["webhook"] /\ PoolCheckedIn > 0,
   bot_token |-> ~Falsy(Getenv("BOT_TOKEN")),
   tgms_token |-> ~Falsy(Getenv("TGMS_BOT_TOKEN")),
   admin_key |-> ~Falsy(Getenv("ADMIN_API_KEY")),
   database_url |-> "DATABASE_URL" \in configured]

CheckNames == {"database", "bot_token", "tgms_token", "admin_key", "database_url"}

get_health_status ==
  LET failed == {k \in CheckNames : ~HealthChecks[k]}
  IN [status |-> IF failed = {} THEN "healthy" ELSE "unhealthy",
      failed_checks |-> failed]

\* A gate that lets every request through.
GateAlwaysOpen(e) == TRUE

\* The readiness gate of a POST: handle_webhook asks get_health_status,
\* webhook_tgms and webhook_swap test their module's engine.
GateOpen(e) ==
  IF e = "webhook" THEN get_health_status.status = "healthy"
  ELSE engine[e]

\* ------------------------------------------------------- the POST handlers
\* What a handler does with a request up to its first store access: the
\* status it returns (0: none yet), the step to continue at, the routing
\* decision made so far.
Reply(status) ==
  [status |-> status, pc |-> "done", decision |-> NoDecision, calls |-> <<>>,
   failedAt |-> "none"]

Continue(at, d, made) ==
  [status |-> 0, pc |-> at, decision |-> d, calls |-> made, failedAt |-> "none"]

\* An exception raised by a step of webhook_tgms before the store is touched:
\* its `except Exception` clause answers 500.
Raised(step) ==
  [status |-> 500, pc |-> "done", decision |-> NoDecision, calls |-> <<>>,
   failedAt |-> step]

\* handle_webhook: health gate, engine test, body validation, routing by
\* path.  The only route is /api/webhook, whose path does not contain
\* 'tgms', so the update goes to _handle_main_update, which starts with
\* _send_immediate_response.
handle_webhook(b) ==
  IF ~GateOpen("webhook") THEN Reply(503)
  ELSE IF ~engine["webhook"] THEN Reply(500)
  ELSE IF b.kind = "malformed" THEN Reply(400)
  ELSE IF ~Truthy(b) \/ ~HasUpdateId(b) THEN Reply(400)
  ELSE Continue("respond", NoDecision, <<>>)

\* The module global `httpx` of webhook_tgms.py: the imported module, or None
\* when the import at lines 12-18 failed.  The routes are modelled with the
\* import having succeeded.
httpx == "httpx"

\* send_typing_action(bot_token, chat_id): starts the detached typing task and
\* returns at once; `if not httpx or not bot_token or not chat_id: return`.
send_typing_action(client, token, chat) ==
  IF client = None \/ Falsy(token) \/ chat = None THEN <<>> ELSE <<"typing_task">>

\* threading.Thread(...).start() either starts the thread or raises
\* RuntimeError (no thread available); send_typing_action does not catch it.
ThreadStarts == BOOLEAN

\* webhook_tgms, POST: engine test, body, credential, classification, then
\* `if chat_id: send_typing_action(...)`.
\* get_json(force=True) raises on unparsable text and .get raises on an
\* array; both land in the handler's except clause (500), and so does a
\* typing thread that cannot be started.
webhook_tgms(b, started) ==
  IF ~GateOpen("webhook_tgms") THEN Reply(503)
  ELSE IF b.kind = "malformed" THEN Reply(500)
  ELSE IF ~Truthy(b) THEN Reply(400)
  ELSE IF b.kind = "array" THEN Reply(500)
  ELSE IF Falsy(Getenv("TGMS_BOT_TOKEN")) THEN Reply(500)
  ELSE IF ClassifyTgmsChat(b) # None /\ ~started THEN Raised("dispatch")
  ELSE Continue("connect",
                [job_type |-> ClassifyTgmsJob(b),
                 bot_token |-> Getenv("TGMS_BOT_TOKEN"),
                 chat_id |-> ClassifyTgmsChat(b)],
                IF ClassifyTgmsChat(b) # None
                THEN send_typing_action(httpx, Getenv("TGMS_BOT_TOKEN"), ClassifyTgmsChat(b))
                ELSE <<>>)

\* webhook_swap, POST: engine test, body; no credential test, no classifier.
webhook_swap(b) ==
  IF ~GateOpen("webhook_swap") THEN Reply(503)
  ELSE IF b.kind = "malformed" THEN Reply(500)
  ELSE IF ~Truthy(b) THEN Reply(400)
  ELSE IF b.kind = "array" THEN Reply(500)
  ELSE Continue("connect",
                [job_type |-> ClassifySwapJob(b),
                 bot_token |-> SWAP_BOT_TOKEN,
                 chat_id |-> None],
                <<>>)

Ingresses == {"webhook", "webhook_tgms", "webhook_swap"}

\* The handler functions of webhook.py, entered directly.
HandlerEntries == {"main_update", "tgms_update"}

\* The function that enqueues for a request, and the module whose engine it uses.
Handler(e) == IF e = "webhook" THEN "main_update" ELSE e

ModuleOf(e) == IF e \in {"webhook_tgms", "webhook_swap"} THEN e ELSE "webhook"

\* enqueue_tgms_send, POST /api/tgms/send: engine test, then the key test,
\* then `request.get_json(force=True) or {}` (outside the try block: unparsable
\* text is answered 400 by Flask), then the enqueue of a tgms_send_to_groups
\* row with whatever os.environ.get('TGMS_BOT_TOKEN') returns.
enqueue_tgms_send(key, b) ==
  IF ~engine["webhook"] THEN Reply(500)
  ELSE IF Falsy(Getenv("ADMIN_API_KEY")) \/ key # Getenv("ADMIN_API_KEY") THEN Reply(401)
  ELSE IF b.kind = "malformed" THEN Reply(400)
  ELSE Continue("connect",
                [job_type |-> "tgms_send_to_groups",
                 bot_token |-> Getenv("TGMS_BOT_TOKEN"),
                 chat_id |-> None],
                <<>>)

Admit(e, b, started) ==
  CASE e = "webhook" -> handle_webhook(b)
    [] e = "webhook_tgms" -> webhook_tgms(b, started)
    [] e = "webhook_swap" -> webhook_swap(b)
    [] e = "main_update" -> Continue("respond", NoDecision, <<>>)
    [] e = "tgms_update" -> Continue("connect", NoDecision, <<>>)

\* ------------------------------------------------------ immediate responder
\* _send_immediate_response(update_data, is_main_bot=True): the outbound
\* calls it makes, in order, when none fails.
send_immediate_response(b) ==
  IF Falsy(Getenv("BOT_TOKEN")) THEN <<>>
  ELSE IF b.cbq
  THEN <<"answerCallbackQuery">>
       \o (IF ChatOf(b, "callback_query") # None THEN <<"sendChatAction">> ELSE <<>>)
  ELSE IF b.msg /\ ChatOf(b, "message") # None THEN <<"sendChatAction">>
  ELSE <<>>

\* An outbound call of _send_immediate_response that raises ends the function
\* (its except clause logs): the calls made are a non-empty prefix of the plan.
CallOutcomes(r) ==
  LET plan == send_immediate_response(body[r])
  IN IF plan = <<>> THEN {<<>>} ELSE {SubSeq(plan, 1, k) : k \in 1..Len(plan)}

\* --------------------------------------------------------------- the store
\* The row a request inserts.
JobRow(r) ==
  [req |-> r, job_type |-> decision[r].job_type, bot_token |-> decision[r].bot_token,
   payload |-> JsonDumps(body[r]), status |-> "pending"]

\* A store without transaction isolation: the row is visible at once.
DbExecuteAutocommit(r, row) == [jobs |-> jobs \cup {row}, tx |-> tx]

\* connection.execute(INSERT ...) inside the transaction: the row is written
\* in the transaction, not yet visible to other connections.
DbExecute(r, row) == [jobs |-> jobs, tx |-> [tx EXCEPT ![r] = @ \cup {row}]]

\* A commit under a uniqueness rule on the payload: a row whose payload is
\* already in the table is dropped.
DbCommitDedup(r) ==
  [jobs |-> jobs \cup {row \in tx[r] : ~\E j \in jobs : j.payload = row.payload},
   tx |-> [tx EXCEPT ![r] = {}]]

\* A commit that replaces the table by the rows of its transaction.
DbCommitReplace(r) == [jobs |-> tx[r], tx |-> [tx EXCEPT ![r] = {}]]

\* transaction.commit() / leaving `with conn.begin()` normally.
DbCommit(r) == [jobs |-> jobs \cup tx[r], tx |-> [tx EXCEPT ![r] = {}]]

\* A rollback that also discards the rows other connections committed.
DbRollbackOthers(r) == [jobs |-> {j \in jobs : j.req = r}, tx |-> [tx EXCEPT ![r] = {}]]

\* leaving `with conn.begin()` by an exception: rollback.
DbRollback(r) == [jobs |-> jobs, tx |-> [tx EXCEPT ![r] = {}]]

\* The status after a committed insert.
EnqueueOkStatus == 200

\* An except clause that logs and answers as if the job had been queued.
ErrorAnsweredOk == EnqueueOkStatus

\* The status of the `except Exception` clause around the enqueue.
EnqueueErrorStatus == 500

\* -------------------------------------------------------- the typing thread
\* _send_typing, the body of the thread send_typing_action starts.  Time is
\* counted in seconds from the moment end_time is computed.
Duration == 5

TypingPause == 4

CallTimeout == 2

\* pc: "none" no thread running yet, "loop" at the `while` test, "sleep" in
\* time.sleep(4), "end" returned.  now: the seconds elapsed; attempts: the
\* posts issued; lastAt: when the last one was issued (-1: none yet);
\* failed: whether a post raised.
NoThread ==
  [pc |-> "none", now |-> 0, attempts |-> 0, lastAt |-> -1, failed |-> FALSE]

\* A thread that goes on to the pause after a post that raised.
RetryAfterFailedPost == "sleep"

\* `except: break`: a post that raised ends the loop.
AfterFailedPost == "end"

\* ------------------------------------------------------------------ actions
\* The state after the modules are imported, with request slots R.
InitOver(R) ==
  /\ configured \in {S \in SUBSET Settings : Cardinality(Settings \ S) <= MaxMissing}
  /\ storeUp \in BOOLEAN
  /\ engine = [m \in Modules |-> init_db(m)]
  /\ pc = [r \in R |-> "idle"]
  /\ method = [r \in R |-> "none"]
  /\ entry = [r \in R |-> "none"]
  /\ header = [r \in R |-> None]
  /\ body = [r \in R |-> Other("empty")]
  /\ decision = [r \in R |-> NoDecision]
  /\ calls = [r \in R |-> <<>>]
  /\ conn = [r \in R |-> FALSE]
  /\ tx = [r \in R |-> {}]
  /\ failedAt = [r \in R |-> "none"]
  /\ resp = [r \in R |-> 0]
  /\ report = [r \in R |-> {}]
  /\ typing = [r \in R |-> NoThread]
  /\ jobs = {}

Init == InitOver(Reqs)

\* Requests take their slots in order of arrival.
NextSlot(r) == pc[r] = "idle" /\ (IF r = 1 THEN TRUE ELSE pc[r - 1] # "idle")

\* A request enters handler e with body b and runs up to its first blocking step.
Enter(r, e, k, b, a) ==
  /\ method' = [method EXCEPT ![r] = "POST"]
  /\ entry' = [entry EXCEPT ![r] = e]
  /\ header' = [header EXCEPT ![r] = k]
  /\ body' = [body EXCEPT ![r] = b]
  /\ decision' = [decision EXCEPT ![r] = a.decision]
  /\ resp' = [resp EXCEPT ![r] = a.status]
  /\ pc' = [pc EXCEPT ![r] = a.pc]
  /\ calls' = [calls EXCEPT ![r] = a.calls]
  /\ failedAt' = [failedAt EXCEPT ![r] = a.failedAt]
  /\ UNCHANGED <<typing, configured, storeUp, engine, conn, tx, report, jobs>>

\* POST /api/webhook, /api/webhook_tgms, /api/webhook_swap.
Post(r) ==
  /\ NextSlot(r)
  /\ \E e \in Ingresses, b \in Bodies, started \in ThreadStarts :
       Enter(r, e, None, b, Admit(e, b, started))

\* _handle_main_update / _handle_tgms_update called with an update that
\* passed handle_webhook's validation.
HandlerBodies ==
  {x \in Bodies : HasUpdateId(x) /\ x.mcm \in {"absent", "administrator", "member"}
                    /\ (x.chat \/ ~x.msg) /\ ~(x.mcm = "member" /\ x.cjr)}

HandlerCall(r) ==
  /\ NextSlot(r)
  /\ \E e \in HandlerEntries, b \in HandlerBodies :
       Enter(r, e, None, b, Admit(e, b, TRUE))

\* POST /api/tgms/send with an x-api-key header that is absent, wrong or the
\* configured key.  `payload = get_json(force=True) or {}`.
ApiKeys == {None, "not-the-key", SecretOf("ADMIN_API_KEY")}

AdminBodies ==
  {Other("malformed"), Other("empty"), Obj(FALSE, "absent", FALSE, FALSE, FALSE, FALSE)}

AdminSend(r) ==
  /\ NextSlot(r)
  /\ \E k \in ApiKeys, b \in AdminBodies :
       Enter(r, "tgms_send", k, b, enqueue_tgms_send(k, b))

\* GET /health (webhook.py), GET /api/webhook_tgms, GET /api/webhook_swap.
GetStatus(e) ==
  IF e = "health"
  THEN (IF get_health_status.status = "healthy" THEN 200 ELSE 503)
  ELSE 200

GetReport(e) ==
  IF e = "health" THEN get_health_status.failed_checks
  ELSE IF engine[e] THEN {} ELSE {"database"}

Get(r) ==
  /\ NextSlot(r)
  /\ \E e \in {"health", "webhook_tgms", "webhook_swap"} :
    /\ method' = [method EXCEPT ![r] = "GET"]
    /\ entry' = [entry EXCEPT ![r] = e]
    /\ resp' = [resp EXCEPT ![r] = GetStatus(e)]
    /\ report' = [report EXCEPT ![r] = GetReport(e)]
    /\ pc' = [pc EXCEPT ![r] = "done"]
    /\ UNCHANGED <<typing, configured, storeUp, engine, header, body, decision, calls, conn, tx,
                   failedAt, jobs>>

\* _handle_main_update calls _send_immediate_response and waits for it.
Respond(r) ==
  /\ pc[r] = "respond"
  /\ \E made \in CallOutcomes(r) : calls' = [calls EXCEPT ![r] = made]
  /\ pc' = [pc EXCEPT ![r] = "connect"]
  /\ UNCHANGED <<typing, configured, storeUp, engine, method, entry, header, body,
                 decision, conn, tx, failedAt, resp, report, jobs>>

\* A failed enqueue step that answers without closing the connection.
FailKeepingConnection(r, step) ==
  /\ jobs' = DbRollback(r).jobs
  /\ tx' = DbRollback(r).tx
  /\ conn' = conn
  /\ failedAt' = [failedAt EXCEPT ![r] = step]
  /\ resp' = [resp EXCEPT ![r] = EnqueueErrorStatus]
  /\ pc' = [pc EXCEPT ![r] = "done"]

\* A failed enqueue step: the transaction is rolled back, the connection
\* released, the except clause answers.
Fail(r, step) ==
  /\ jobs' = DbRollback(r).jobs
  /\ tx' = DbRollback(r).tx
  /\ conn' = [conn EXCEPT ![r] = FALSE]
  /\ failedAt' = [failedAt EXCEPT ![r] = step]
  /\ resp' = [resp EXCEPT ![r] = EnqueueErrorStatus]
  /\ pc' = [pc EXCEPT ![r] = "done"]

\* In webhook.py the job type and credential are resolved inside the transaction.
ClassifiesInTx(r) == Handler(entry[r]) \in {"main_update", "tgms_update"}

\* `with engine.connect() as conn: with conn.begin():`
Connect(r) ==
  /\ pc[r] = "connect"
  /\ \E ok \in BOOLEAN :
       IF engine[ModuleOf(entry[r])] /\ storeUp /\ ok
       THEN /\ conn' = [conn EXCEPT ![r] = TRUE]
            /\ pc' = [pc EXCEPT ![r] = IF ClassifiesInTx(r) THEN "classify" ELSE "insert"]
            /\ UNCHANGED <<tx, failedAt, resp, jobs>>
       ELSE Fail(r, "acquire")
  /\ UNCHANGED <<typing, configured, storeUp, engine, method, entry, header, body,
                 decision, calls, report>>

\* _handle_main_update / _handle_tgms_update, first statements inside the
\* transaction: job type, credential, `raise ValueError` when it is missing.
InTxDecision(r) ==
  IF Handler(entry[r]) = "main_update"
  THEN [job_type |-> ClassifyMainJob(body[r]), bot_token |-> ClassifyMainToken(body[r]),
        chat_id |-> None]
  ELSE [job_type |-> ClassifyTgmsUpdateJob(body[r]), bot_token |-> Getenv("TGMS_BOT_TOKEN"),
        chat_id |-> None]

ClassifyInTx(r) ==
  /\ pc[r] = "classify"
  /\ IF Falsy(InTxDecision(r).bot_token)
     THEN /\ Fail(r, "credential")
          /\ UNCHANGED decision
     ELSE /\ decision' = [decision EXCEPT ![r] = InTxDecision(r)]
          /\ pc' = [pc EXCEPT ![r] = "insert"]
          /\ UNCHANGED <<conn, tx, failedAt, resp, jobs>>
  /\ UNCHANGED <<typing, configured, storeUp, engine, method, entry, header, body, calls, report>>

\* connection.execute(INSERT INTO jobs ...)
Insert(r) ==
  /\ pc[r] = "insert"
  /\ \E ok \in BOOLEAN :
       IF storeUp /\ ok
       THEN /\ jobs' = DbExecute(r, JobRow(r)).jobs
            /\ tx' = DbExecute(r, JobRow(r)).tx
            /\ pc' = [pc EXCEPT ![r] = "commit"]
            /\ UNCHANGED <<conn, failedAt, resp>>
       ELSE Fail(r, "insert")
  /\ UNCHANGED <<typing, configured, storeUp, engine, method, entry, header, body,
                 decision, calls, report>>

\* The commit, the release of the connection and the 200 response.
Commit(r) ==
  /\ pc[r] = "commit"
  /\ \E ok \in BOOLEAN :
       IF storeUp /\ ok
       THEN /\ jobs' = DbCommit(r).jobs
            /\ tx' = DbCommit(r).tx
            /\ conn' = [conn EXCEPT ![r] = FALSE]
            /\ resp' = [resp EXCEPT ![r] = EnqueueOkStatus]
            /\ pc' = [pc EXCEPT ![r] = "done"]
            /\ UNCHANGED failedAt
       ELSE Fail(r, "commit")
  /\ UNCHANGED <<typing, configured, storeUp, engine, method, entry, header, body,
                 decision, calls, report>>

\* The database becomes unreachable, or reachable again.
StoreDown ==
  /\ storeUp
  /\ storeUp' = FALSE
  /\ UNCHANGED <<typing, configured, engine, pc, method, entry, header, body, decision,
                 calls, conn, tx, failedAt, resp, report, jobs>>

StoreBack ==
  /\ ~storeUp
  /\ storeUp' = TRUE
  /\ UNCHANGED <<typing, configured, engine, pc, method, entry, header, body, decision,
                 calls, conn, tx, failedAt, resp, report, jobs>>

\* The thread starts running: `end_time = time.time() + duration`.
TypingStart(r) ==
  /\ typing[r].pc = "none"
  /\ \E i \in DOMAIN calls[r] : calls[r][i] = "typing_task"
  /\ typing' = [typing EXCEPT ![r].pc = "loop"]
  /\ UNCHANGED <<configured, storeUp, engine, pc, method, entry, header, body, decision,
                 calls, conn, tx, failedAt, resp, report, jobs>>

\* `while time.time() < end_time:` holds; httpx.post(..., timeout=2.0) returns
\* or raises within the timeout.
TypingAttempt(r) ==
  /\ typing[r].pc = "loop"
  /\ typing[r].now < Duration
  /\ \E d \in 0..CallTimeout, ok \in BOOLEAN :
       typing' = [typing EXCEPT ![r] =
                    [pc |-> IF ok THEN "sleep" ELSE AfterFailedPost,
                     now |-> @.now + d,
                     attempts |-> @.attempts + 1,
                     lastAt |-> @.now,
                     failed |-> ~ok]]
  /\ UNCHANGED <<configured, storeUp, engine, pc, method, entry, header, body, decision,
                 calls, conn, tx, failedAt, resp, report, jobs>>

\* time.sleep(4): at least the pause, at most MaxLag later.
TypingSleep(r) ==
  /\ typing[r].pc = "sleep"
  /\ \E lag \in 0..MaxLag :
       typing' = [typing EXCEPT ![r].pc = "loop", ![r].now = @ + TypingPause + lag]
  /\ UNCHANGED <<configured, storeUp, engine, pc, method, entry, header, body, decision,
                 calls, conn, tx, failedAt, resp, report, jobs>>

\* The `while` test fails: the thread function returns.
TypingExit(r) ==
  /\ typing[r].pc = "loop"
  /\ typing[r].now >= Duration
  /\ typing' = [typing EXCEPT ![r].pc = "end"]
  /\ UNCHANGED <<configured, storeUp, engine, pc, method, entry, header, body, decision,
                 calls, conn, tx, failedAt, resp, report, jobs>>

\* The deployed program: requests reach the code through its routes only.
\* handle_webhook's gate never opens (the database check of get_health_status
\* is false for every engine), so the steps of _handle_main_update and
\* _handle_tgms_update are not reachable by a route.
Next ==
  \/ \E r \in Reqs : Post(r)
  \/ \E r \in Reqs : AdminSend(r)
  \/ \E r \in Reqs : Get(r)
  \/ \E r \in Reqs : Connect(r)
  \/ \E r \in Reqs : Insert(r)
  \/ \E r \in Reqs : Commit(r)
  \/ StoreDown
  \/ StoreBack

Spec == Init /\ [][Next]_vars

\* The same, with the handler functions of webhook.py as entry points too.
NextHandlers ==
  \/ Next
  \/ \E r \in Reqs : HandlerCall(r)
  \/ \E r \in Reqs : Respond(r)
  \/ \E r \in Reqs : ClassifyInTx(r)

SpecHandlers == Init /\ [][NextHandlers]_vars

\* Two requests: any first request, and a second one that is a second
\* delivery of the first one's update (same entry point, same body), a
\* broadcast request or a GET.  The second starts at any time after the first
\* has started, so the two run sequentially or interleaved.
Pair == {1, 2}

Redeliver(r) ==
  /\ NextSlot(r)
  /\ method[1] = "POST"
  /\ entry[1] \in Ingresses \cup HandlerEntries
  /\ \E started \in ThreadStarts :
       Enter(r, entry[1], None, body[1], Admit(entry[1], body[1], started))

InitPair == InitOver(Pair)

NextPair ==
  \/ Post(1)
  \/ HandlerCall(1)
  \/ Redeliver(2)
  \/ \E r \in Pair : AdminSend(r)
  \/ \E r \in Pair : Get(r)
  \/ \E r \in Pair : Respond(r)
  \/ \E r \in Pair : Connect(r)
  \/ \E r \in Pair : ClassifyInTx(r)
  \/ \E r \in Pair : Insert(r)
  \/ \E r \in Pair : Commit(r)
  \/ StoreDown
  \/ StoreBack

SpecPair == InitPair /\ [][NextPair]_vars

\* Two requests of any kind running concurrently, each with its typing thread:
\* both are POSTs to any route, or calls of a handler function of webhook.py,
\* with a message or unparsable text as body.
ConcurrentBodies ==
  {Obj(TRUE, "absent", FALSE, FALSE, TRUE, TRUE),
   Other("malformed")}

PostConcurrent(r) ==
  /\ NextSlot(r)
  /\ \E e \in Ingresses, b \in ConcurrentBodies, started \in ThreadStarts :
       Enter(r, e, None, b, Admit(e, b, started))

HandlerCallConcurrent(r) ==
  /\ NextSlot(r)
  /\ \E e \in HandlerEntries, b \in ConcurrentBodies \cap HandlerBodies :
       Enter(r, e, None, b, Admit(e, b, TRUE))

NextConcurrent ==
  \/ \E r \in Pair : PostConcurrent(r)
  \/ \E r \in Pair : HandlerCallConcurrent(r)
  \/ \E r \in Pair : Respond(r)
  \/ \E r \in Pair : Connect(r)
  \/ \E r \in Pair : ClassifyInTx(r)
  \/ \E r \in Pair : Insert(r)
  \/ \E r \in Pair : Commit(r)
  \/ \E r \in Pair : TypingStart(r)
  \/ \E r \in Pair : TypingAttempt(r)
  \/ \E r \in Pair : TypingSleep(r)
  \/ \E r \in Pair : TypingExit(r)
  \/ StoreDown
  \/ StoreBack

SpecConcurrent == InitPair /\ [][NextConcurrent]_vars

\* send_typing_action called on its own, with every kind of argument and with
\* the module's httpx present or missing; the thread it starts is scheduled
\* fairly until it returns.
One == {1}

TypingClients == {None, httpx}

TypingTokens == {None, Empty, SecretOf("TGMS_BOT_TOKEN")}

TypingChats == {None, "chat-42"}

CallTyping(r) ==
  /\ NextSlot(r)
  /\ \E client \in TypingClients, token \in TypingTokens, chat \in TypingChats,
        started \in ThreadStarts :
       LET task == send_typing_action(client, token, chat)
       IN /\ entry' = [entry EXCEPT ![r] = "send_typing_action"]
          /\ decision' = [decision EXCEPT ![r] =
                            [job_type |-> None, bot_token |-> token, chat_id |-> chat,
                             client |-> client]]
          /\ calls' = [calls EXCEPT ![r] = IF started THEN task ELSE <<>>]
          /\ failedAt' = [failedAt EXCEPT ![r] =
                            IF task # <<>> /\ ~started THEN "dispatch" ELSE @]
          /\ pc' = [pc EXCEPT ![r] = "done"]
  /\ UNCHANGED <<typing, configured, storeUp, engine, method, header, body, conn, tx,
                 resp, report, jobs>>

TypingStep(r) ==
  TypingStart(r) \/ TypingAttempt(r) \/ TypingSleep(r) \/ TypingExit(r)

InitTyping == InitOver(One)

NextTyping ==
  \/ CallTyping(1)
  \/ \E r \in One : TypingStart(r)
  \/ \E r \in One : TypingAttempt(r)
  \/ \E r \in One : TypingSleep(r)
  \/ \E r \in One : TypingExit(r)

SpecTyping ==
  InitTyping /\ [][NextTyping]_vars /\ \A r \in One : WF_vars(TypingStep(r))

\* ------------------------------------------------------------------ claims
\* The committed rows a request has added.
RowsOf(r) == {j \in jobs : j.req = r}

IsPost(r) == method[r] = "POST" /\ pc[r] # "idle"

StoreFailures == {"acquire", "insert", "commit"}

\* C1: a request leaves exactly one new visible Job row or none; a row is
\* visible only once its request has committed, and a request whose connection
\* acquisition, INSERT or commit failed leaves no visible row and nothing
\* half-written.
C1_EnqueueAtomic ==
  \A r \in Reqs :
    /\ Cardinality(RowsOf(r)) <= 1
    /\ RowsOf(r) # {} => (pc[r] = "done" /\ failedAt[r] = "none")
    /\ failedAt[r] \in StoreFailures => RowsOf(r) = {}
    /\ pc[r] = "done" => tx[r] = {}

\* C1 witness: a commit failed after the row had been written, and no row is visible.
C1_Witness ==
  \E r \in Reqs : IsPost(r) /\ pc[r] = "done" /\ failedAt[r] = "commit" /\ RowsOf(r) = {}

\* C2: a POST is answered 200 exactly when one row of it was committed, and a
\* failed acquire, insert or commit is answered 500 with no row added.
C2_StatusMatchesEnqueue ==
  \A r \in Reqs :
    IsPost(r) =>
      /\ (pc[r] = "done" /\ resp[r] = 200) <=> Cardinality(RowsOf(r)) = 1
      /\ failedAt[r] \in StoreFailures => (resp[r] = 500 /\ RowsOf(r) = {})

\* C2 witness: an insert failed; the answer is 500 and no row was added.
C2_Witness ==
  \E r \in Reqs :
    IsPost(r) /\ pc[r] = "done" /\ failedAt[r] = "insert" /\ resp[r] = 500 /\ RowsOf(r) = {}

\* The readiness check of an ingress, as its handler evaluates it.
ReadinessFails(e) ==
  IF e = "webhook" THEN get_health_status.status = "unhealthy" ELSE ~engine[e]

ViaIngress(r) == IsPost(r) /\ entry[r] \in Ingresses

\* C3: a POST whose readiness check fails is answered 503, adds no row, opens
\* no transaction and makes no responder call.
C3_NotReadyShortCircuits ==
  \A r \in Reqs :
    (ViaIngress(r) /\ ReadinessFails(entry[r])) =>
      /\ pc[r] = "done"
      /\ resp[r] = 503
      /\ RowsOf(r) = {}
      /\ tx[r] = {}
      /\ ~conn[r]
      /\ calls[r] = <<>>

\* C3 witness: a valid message body on /api/webhook_tgms, no store handle: 503.
C3_Witness ==
  \E r \in Reqs :
    /\ ViaIngress(r) /\ entry[r] = "webhook_tgms" /\ ~engine["webhook_tgms"]
    /\ HasUpdateId(body[r]) /\ body[r].msg /\ body[r].chat
    /\ "TGMS_BOT_TOKEN" \in configured
    /\ resp[r] = 503

\* A well-formed body carrying update_id and a message marker only.
IsMessageBody(b) == HasUpdateId(b) /\ b.msg /\ b.mcm = "absent" /\ ~b.cjr /\ ~b.cbq

ProcessUpdateKinds == {"process_telegram_update", "tgms_process_update"}

\* C4: with every setting configured and the store reachable and answering,
\* the readiness check passes and a message update is answered 200 with
\* exactly one pending process-update row whose payload is the serialized body.
C4_ReadyPostAccepted ==
  \A r \in Reqs :
    (/\ ViaIngress(r) /\ pc[r] = "done"
     /\ configured = Settings /\ storeUp /\ failedAt[r] = "none"
     /\ IsMessageBody(body[r])) =>
      /\ ~ReadinessFails(entry[r])
      /\ resp[r] = 200
      /\ \E j \in jobs :
           /\ RowsOf(r) = {j}
           /\ j.job_type \in ProcessUpdateKinds
           /\ j.status = "pending"
           /\ j.payload = JsonDumps(body[r])

\* C5: on every ingress a body without update_id, or one that is no JSON
\* object, is answered 400 before anything is classified, written or sent.
C5_MissingUpdateIdRejected ==
  \A r \in Reqs :
    (ViaIngress(r) /\ ~ReadinessFails(entry[r]) /\ ~HasUpdateId(body[r])) =>
      /\ pc[r] = "done"
      /\ resp[r] = 400
      /\ decision[r] = NoDecision
      /\ RowsOf(r) = {}
      /\ tx[r] = {}
      /\ calls[r] = <<>>

\* The setting that holds the credential of the job kind an ingress resolves.
CredentialSetting(e, b) ==
  CASE e = "webhook_swap" -> "SWAP_BOT_TOKEN"
    [] e = "webhook_tgms" -> "TGMS_BOT_TOKEN"
    [] OTHER -> IF b.cjr THEN "TGMS_BOT_TOKEN" ELSE "BOT_TOKEN"

\* C6: no committed row carries an empty or null credential, and a valid body
\* whose credential is not configured is answered 500 with no row.
C6_MissingCredentialRejected ==
  /\ \A j \in jobs : ViaIngress(j.req) => ~Falsy(j.bot_token)
  /\ \A r \in Reqs :
       (/\ ViaIngress(r) /\ ~ReadinessFails(entry[r]) /\ HasUpdateId(body[r])
        /\ CredentialSetting(entry[r], body[r]) \notin configured) =>
         /\ RowsOf(r) = {}
         /\ pc[r] = "done" => resp[r] = 500

\* C7: a POST of a well-formed update that arrives while the store is
\* unreachable is answered 503 by the readiness check; it is not admitted to
\* the enqueue (where the failure would be a 500) and no insert is attempted.
C7_StoreDownAnswered503 ==
  [][\A r \in Reqs :
       (/\ ~storeUp /\ pc[r] = "idle" /\ pc'[r] # "idle"
        /\ method'[r] = "POST" /\ entry'[r] \in Ingresses
        /\ HasUpdateId(body'[r])) =>
         (pc'[r] = "done" /\ resp'[r] = 503)]_vars

\* What each readiness path needs to be ready: a reachable store and the
\* credentials of its module.
RequiredBy(e) ==
  CASE e = "health" -> {"DATABASE_URL", "BOT_TOKEN", "TGMS_BOT_TOKEN", "ADMIN_API_KEY"}
    [] e = "webhook_tgms" -> {"DATABASE_URL", "TGMS_BOT_TOKEN"}
    [] OTHER -> {"DATABASE_URL", "SWAP_BOT_TOKEN"}

GatewayReady(e) == storeUp /\ RequiredBy(e) \subseteq configured

\* C8: a GET on a readiness path is answered 200 when the gateway is ready and
\* 503 when it is not; with the store unreachable the answer is 503 and lists
\* "database" among the failed checks.
C8_ReadinessGet ==
  [][\A r \in Reqs :
       (pc[r] = "idle" /\ pc'[r] # "idle" /\ method'[r] = "GET") =>
         /\ resp'[r] = (IF GatewayReady(entry'[r]) THEN 200 ELSE 503)
         /\ ~storeUp => "database" \in report'[r]]_vars

\* C9: every row made from a body with my_chat_member has kind
\* tgms_register_group when the new status is administrator or creator, and a
\* process-update kind otherwise, whatever else the body contains.
C9_MembershipChangeKind ==
  \A j \in jobs :
    LET b == body[j.req]
    IN b.mcm # "absent" =>
         IF b.mcm \in {"administrator", "creator"}
         THEN j.job_type = "tgms_register_group"
         ELSE j.job_type \in ProcessUpdateKinds

\* C10: every row made from a body with chat_join_request and without
\* my_chat_member has kind tgms_process_join_request.
C10_JoinRequestKind ==
  \A j \in jobs :
    LET b == body[j.req]
    IN (b.cjr /\ b.mcm = "absent") => j.job_type = "tgms_process_join_request"

\* A well-formed body carrying update_id and none of the recognised markers.
IsMarkerless(b) ==
  HasUpdateId(b) /\ b.mcm = "absent" /\ ~b.cjr /\ ~b.cbq /\ ~b.msg

\* The POST requests that go through a classifier and an enqueue.
IsUpdatePost(r) == IsPost(r) /\ entry[r] \in Ingresses \cup HandlerEntries

\* C11: a valid body with none of the recognised markers is never answered 400
\* and never fails for its shape: it has no chat context, starts no responder
\* call, and a request of it that ends without a store fault is answered 200
\* with a process-update row, unless readiness or its credential is missing.
C11_UnmarkedBodyProcessUpdate ==
  \A r \in Reqs :
    (IsUpdatePost(r) /\ IsMarkerless(body[r])) =>
      /\ resp[r] # 400
      /\ decision[r].chat_id = None
      /\ calls[r] = <<>>
      /\ \A j \in RowsOf(r) : j.job_type \in ProcessUpdateKinds
      /\ (pc[r] = "done" /\ failedAt[r] = "none") =>
           \/ resp[r] = 200 /\ RowsOf(r) # {}
           \/ ViaIngress(r) /\ ReadinessFails(entry[r])
           \/ entry[r] = "webhook_tgms" /\ "TGMS_BOT_TOKEN" \notin configured

\* C11 witness: {"update_id": 1} on /api/webhook_tgms, queued as
\* tgms_process_update with no chat and no typing task.
C11_Witness ==
  \E r \in Reqs :
    /\ IsUpdatePost(r) /\ entry[r] = "webhook_tgms" /\ IsMarkerless(body[r])
    /\ pc[r] = "done" /\ resp[r] = 200
    /\ decision[r].chat_id = None /\ calls[r] = <<>>
    /\ \E j \in RowsOf(r) : j.job_type = "tgms_process_update"

\* The Immediate Responder of a request failed: the typing thread could not be
\* started, or an outbound call of _send_immediate_response raised before the
\* last planned call.
ResponderFailed(r) ==
  \/ failedAt[r] = "dispatch"
  \/ /\ Handler(entry[r]) = "main_update"
     /\ calls[r] # <<>>
     /\ calls[r] # send_immediate_response(body[r])

\* C12: a request with a valid body whose responder failed and whose store
\* operations did not is answered 200 and its row is committed.
C12_ResponderFailureHarmless ==
  \A r \in Reqs :
    (/\ IsUpdatePost(r) /\ pc[r] = "done" /\ storeUp
     /\ HasUpdateId(body[r])
     /\ ResponderFailed(r)
     /\ failedAt[r] \notin StoreFailures \cup {"credential"}) =>
      /\ resp[r] = 200
      /\ Cardinality(RowsOf(r)) = 1

\* The second request is a second delivery of the first one's update.
IsRedelivery ==
  /\ IsUpdatePost(1) /\ IsUpdatePost(2)
  /\ entry[2] = entry[1] /\ body[2] = body[1]

\* C13: two deliveries of the same update that are both answered 200 leave two
\* distinct rows with the same kind, credential and payload; a delivery is
\* never answered otherwise because the other one was accepted.
C13_DuplicateDeliveryTwoRows ==
  IsRedelivery =>
    /\ (pc[1] = "done" /\ resp[1] = 200 /\ pc[2] = "done" /\ resp[2] = 200) =>
         \E j1 \in RowsOf(1), j2 \in RowsOf(2) :
           /\ j1 # j2
           /\ {j1, j2} \subseteq jobs
           /\ j1.job_type = j2.job_type
           /\ j1.bot_token = j2.bot_token
           /\ j1.payload = j2.payload
    /\ (resp[1] = 200 /\ pc[2] = "done" /\ failedAt[2] = "none") => resp[2] = 200
    /\ (resp[2] = 200 /\ pc[1] = "done" /\ failedAt[1] = "none") => resp[1] = 200

\* C13 witness: the same update with update_id delivered twice, both answered
\* 200, two rows in the table.
C13_Witness ==
  /\ IsRedelivery /\ HasUpdateId(body[1])
  /\ pc[1] = "done" /\ resp[1] = 200 /\ pc[2] = "done" /\ resp[2] = 200
  /\ Cardinality(jobs) = 2

\* C14: every step of the gateway leaves the rows already in the table in
\* place and unchanged, and every row in the table has status 'pending'.
C14_RowsPendingAndKept ==
  [][/\ jobs \subseteq jobs'
     /\ \A j \in jobs' : j.status = "pending"]_vars

\* C14 witness: a row of the first request is in the table after the second
\* request was rolled back at its commit.
C14_Witness ==
  /\ \E j \in RowsOf(1) : j.status = "pending"
  /\ pc[2] = "done" /\ failedAt[2] = "commit"

\* The x-api-key header of a request is the configured admin key.
KeyMatches(r) ==
  ~Falsy(Getenv("ADMIN_API_KEY")) /\ header[r] = Getenv("ADMIN_API_KEY")

\* C15: a POST /api/tgms/send whose key is absent or wrong, or that arrives
\* while ADMIN_API_KEY is unset, is answered 401 and adds no row; a
\* tgms_send_to_groups row comes only from a request with the matching key.
C15_BroadcastKeyGated ==
  /\ \A r \in Reqs :
       (IsPost(r) /\ entry[r] = "tgms_send" /\ ~KeyMatches(r)) =>
         /\ pc[r] = "done"
         /\ resp[r] = 401
         /\ RowsOf(r) = {}
         /\ tx[r] = {}
  /\ \A j \in jobs :
       j.job_type = "tgms_send_to_groups" =>
         (entry[j.req] = "tgms_send" /\ KeyMatches(j.req))

\* The credential the handler of a request attaches to its row.
CredentialOf(r) ==
  CASE Handler(entry[r]) = "main_update" -> ClassifyMainToken(body[r])
    [] entry[r] = "webhook_swap" -> SWAP_BOT_TOKEN
    [] OTHER -> Getenv("TGMS_BOT_TOKEN")

\* The handlers that test their credential (webhook_swap has no such test).
HasCredentialCheck(e) == e # "webhook_swap"

\* C16: in a handler that tests its credential, a request whose credential is
\* missing never holds a store connection or an open transaction: the test is
\* not reached with the connection already acquired.
C16_CredentialCheckedBeforeTx ==
  \A r \in Reqs :
    (IsUpdatePost(r) /\ HasCredentialCheck(entry[r]) /\ Falsy(CredentialOf(r))) =>
      (~conn[r] /\ tx[r] = {})

\* The handler of a request is inside _send_immediate_response, waiting for
\* its outbound calls to return (or time out) before it goes on to the store.
WaitsOnResponder(r) ==
  pc[r] = "respond" /\ send_immediate_response(body[r]) # <<>>

\* C17: no request waits for its responder: whenever outbound calls of a
\* request are outstanding, its handler is already past them, free to open the
\* transaction and to answer.
C17_RequestNeverWaitsOnResponder ==
  \A r \in Reqs : IsUpdatePost(r) => ~WaitsOnResponder(r)

\* C18: a request has responder calls only if its readiness check passed, its
\* body carries update_id and the credential of its job kind is configured;
\* no call is issued twice; a request answered 400 or 503, or failed on a
\* missing credential, has issued none.  (Calls are issued by the admission
\* step and by Respond only, both before Connect.)
C18_ResponderAfterChecks ==
  \A r \in Reqs :
    IsUpdatePost(r) =>
      /\ calls[r] # <<>> =>
           /\ ~(ViaIngress(r) /\ ReadinessFails(entry[r]))
           /\ HasUpdateId(body[r])
           /\ ~Falsy(CredentialOf(r))
      /\ \A i, k \in DOMAIN calls[r] : calls[r][i] = calls[r][k] => i = k
      /\ resp[r] \in {400, 503} => calls[r] = <<>>
      /\ failedAt[r] = "credential" => calls[r] = <<>>

\* A well-formed body with a callback_query (carrying an id) and neither
\* my_chat_member nor chat_join_request.
IsCallbackBody(b) == HasUpdateId(b) /\ b.cbq /\ b.mcm = "absent" /\ ~b.cjr

\* The entry points whose handler has an Immediate Responder.
HasResponder(e) == e \in {"webhook", "main_update", "webhook_tgms"}

AckCalls(r) == {i \in DOMAIN calls[r] : calls[r][i] = "answerCallbackQuery"}

\* C19: an accepted POST of a callback_query body, on an entry point with a
\* responder, has a process-update row, exactly one acknowledgment call, and
\* the chat under callback_query.message.chat as its chat context.
C19_CallbackAcknowledged ==
  \A r \in Reqs :
    (/\ IsUpdatePost(r) /\ HasResponder(entry[r]) /\ IsCallbackBody(body[r])
     /\ pc[r] = "done" /\ resp[r] = 200) =>
      /\ \A j \in RowsOf(r) : j.job_type \in ProcessUpdateKinds
      /\ Cardinality(AckCalls(r)) = 1
      /\ entry[r] = "webhook_tgms" =>
           decision[r].chat_id = ChatOf(body[r], "callback_query")

\* The outbound calls a request has attempted.
Attempted(r) == {calls[r][i] : i \in DOMAIN calls[r]}

\* _send_immediate_response has run for the request.
ResponderRan(r) == entry[r] = "main_update" /\ pc[r] \notin {"idle", "respond"}

\* C20: when the body carries a callback id and a chat id and the responder
\* has run, both the acknowledgment and the activity signal were attempted,
\* whether or not the other one failed.
C20_AckAndSignalIndependent ==
  \A r \in Reqs :
    (/\ IsUpdatePost(r) /\ ResponderRan(r)
     /\ ~Falsy(Getenv("BOT_TOKEN"))
     /\ body[r].cbq /\ ChatOf(body[r], "callback_query") # None) =>
      {"answerCallbackQuery", "sendChatAction"} \subseteq Attempted(r)

\* send_typing_action has started a thread for the request.
HasTypingTask(r) == \E i \in DOMAIN calls[r] : calls[r][i] = "typing_task"

\* C21: the typing thread posts only while less than Duration seconds have
\* elapsed, at least TypingPause seconds after its previous post, and never
\* after a post that raised; it posts once or twice and then returns; a call
\* without chat id, token or httpx starts no thread and posts nothing.
C21_TypingBounded ==
  /\ [](\A r \in One :
          /\ typing[r].attempts <= 2
          /\ typing[r].pc = "end" => typing[r].attempts >= 1
          /\ typing[r].failed => typing[r].pc = "end"
          /\ (/\ entry[r] = "send_typing_action"
              /\ (\/ decision[r].client = None
                  \/ Falsy(decision[r].bot_token)
                  \/ decision[r].chat_id = None)) =>
               (~HasTypingTask(r) /\ typing[r] = NoThread))
  /\ [][\A r \in One :
          typing'[r].attempts # typing[r].attempts =>
            /\ typing'[r].attempts = typing[r].attempts + 1
            /\ typing[r].now < Duration
            /\ ~typing[r].failed
            /\ typing[r].attempts >= 1 => typing[r].now >= typing[r].lastAt + TypingPause]_vars
  /\ \A r \in One : HasTypingTask(r) ~> (typing[r].pc = "end")

\* C21 witness: the thread posted twice, four seconds apart, and returned.
C21_Witness ==
  \E r \in One :
    /\ HasTypingTask(r)
    /\ typing[r].pc = "end"
    /\ typing[r].attempts = 2
    /\ typing[r].lastAt = TypingPause

\* C22: any two rows made by the update handlers that have the same job kind
\* carry the credential of the same setting.
C22_CredentialByKindOnly ==
  \A j1, j2 \in jobs :
    (/\ IsUpdatePost(j1.req) /\ IsUpdatePost(j2.req)
     /\ j1.job_type = j2.job_type) =>
      j1.bot_token = j2.bot_token

\* What a request is answered, from its own entry point and body, the
\* configuration and its own failure.
OwnOutcome(r) ==
  IF failedAt[r] # "none" THEN 500
  ELSE IF Admit(entry[r], body[r], TRUE).status # 0 THEN Admit(entry[r], body[r], TRUE).status
  ELSE 200

\* The requests that have been answered 200.
Accepted == {r \in Pair : pc[r] = "done" /\ resp[r] = 200}

\* C23: with two requests interleaved in any way, the table holds one row per
\* request answered 200, each answer is the one the request's own body,
\* configuration and store faults give, and a step of one request (a failed
\* insert or commit, a rollback) leaves the other's row, transaction,
\* connection, position and answer as they were.
C23_RequestsIndependent ==
  /\ [](/\ Cardinality(jobs) = Cardinality(Accepted)
        /\ \A r \in Pair : (IsUpdatePost(r) /\ pc[r] = "done") => resp[r] = OwnOutcome(r))
  /\ [][\A r, q \in Pair :
          (r # q /\ pc'[q] # pc[q]) =>
            /\ RowsOf(r)' = RowsOf(r)
            /\ tx'[r] = tx[r]
            /\ conn'[r] = conn[r]
            /\ pc'[r] = pc[r]
            /\ resp'[r] = resp[r]]_vars

\* C23 witness: the first request's commit failed and was rolled back; the
\* second was answered 200, its row is in the table and its typing thread has
\* posted.
C23_Witness ==
  /\ IsUpdatePost(1) /\ IsUpdatePost(2)
  /\ pc[1] = "done" /\ failedAt[1] = "commit" /\ RowsOf(1) = {}
  /\ pc[2] = "done" /\ resp[2] = 200 /\ Cardinality(RowsOf(2)) = 1
  /\ typing[2].attempts >= 1

\* C24: a request that has been answered holds no store connection and no
\* open transaction.
C24_ConnectionReleased ==
  \A r \in Reqs :
    (IsPost(r) /\ pc[r] = "done") => (~conn[r] /\ tx[r] = {})

\* C24 witness: _handle_main_update found its credential missing inside the
\* transaction; the request was answered 500 and its connection is closed.
C24_Witness ==
  \E r \in Reqs :
    /\ IsPost(r) /\ entry[r] = "main_update"
    /\ pc[r] = "done" /\ failedAt[r] = "credential" /\ resp[r] = 500
    /\ ~conn[r] /\ tx[r] = {}

====
